---- MODULE Spec2Model ----
(***************************************************************************)
(* prost-derive: the three code generators of src/prost-derive/src/lib.rs  *)
(* (try_message, try_oneof, try_enumeration) and the run-time behaviour of *)
(* the code they generate (encode_raw, merge_field, Oneof::merge,          *)
(* is_valid, default, From<i32>, Into<i32>).                               *)
(*                                                                         *)
(* The field module (crate::field::Field) is not part of the sources at    *)
(* hand; its resolver and its per-field encode/merge capabilities are      *)
(* modelled from the specification (section 4.1 and section 6).            *)
(*                                                                         *)
(* Wire tags are bounded by MaxTag.  The wire format limits tags to        *)
(* 2^29 - 1, so the u32 addition `t + 1` of try_message cannot overflow    *)
(* on a tag the wire format can carry; tags beyond that are not modelled.  *)
(***************************************************************************)
EXTENDS Integers, Sequences, FiniteSets, TLC

VARIABLES
    \* ---- try_message (record codec generator) ----
    decls,            \* the declared fields of the struct, in declaration order
    pc,               \* "resolving" | "failed" | "ready" | "live" | "encoded" | "decoded"
    idx,              \* position of the next field to resolve (0-based, as enumerate())
    next_tag,         \* let mut next_tag: u32
    fields,           \* Vec<(Ident, Field)>: resolved fields; tag-sorted once compiled
    unsorted_fields,  \* the declaration-order clone kept for Debug
    diag,             \* the compile-time diagnostic, NoDiag when none
    \* ---- generated record code at run time ----
    msg,              \* an instance of the struct: field name -> value
    res,              \* what the last merge_field call did and returned
    wire,             \* the (tag, payload) pairs written by encode_raw
    dec,              \* the instance being decoded from wire
    pos,              \* number of wire pairs already merged into dec
    \* ---- try_oneof (sum-type codec generator) and its generated merge ----
    variants,         \* the declared variants of the enum
    opc,              \* "input" | "failed" | "panicked" | "ready"
    ofields,          \* Vec<(Ident, Field)>: one resolved field per variant
    odiag,            \* the diagnostic of try_oneof
    slot,             \* field: &mut Option<#ident>
    ores,             \* what the last Oneof::merge call did and returned
    \* ---- try_enumeration and its generated impls ----
    eimpl,            \* the impl block the attribute is applied to
    epc,              \* "input" | "failed" | "ready"
    evariants,        \* the idents (here: values) of the declared constants
    ediag,            \* the diagnostic of try_enumeration
    evalue,           \* a value of the enumeration's newtype, NoValue when none
    eraw              \* Some(raw) when evalue came from From<i32>(raw), else None

recordVars == <<decls, pc, idx, next_tag, fields, unsorted_fields, diag,
                msg, res, wire, dec, pos>>
oneofVars == <<variants, opc, ofields, odiag, slot, ores>>
enumVars == <<eimpl, epc, evariants, ediag, evalue, eraw>>
vars == <<recordVars, oneofVars, enumVars>>

(***************************************************************************)
(* Bounds of the model.                                                    *)
(***************************************************************************)
\* Largest explicit tag a declaration may carry.
MaxTag == 3
\* Longest struct explored by the compile-time specification Spec.
MaxFields == 4
\* Longest struct explored with its generated code run (SpecRecord).
MaxRecordFields == 2
\* Most variants of a oneof enum.
MaxVariants == 2
\* Most items of an enumeration impl block.
MaxConsts == 3
\* Largest value of a declared constant.
MaxConstValue == 2

\* i32::MAX and i32::MIN, the range of From<i32> / Into<i32>.
I32Max == 2147483647
I32Min == -I32Max - 1

\* The ident of the shape under compilation (#ident).
Ident == "Shape"

NoDiag == [kind |-> "none"]
NoValue == [kind |-> "none"]
None == [some |-> FALSE]
Some(v) == [some |-> TRUE, value |-> v]

(***************************************************************************)
(* Sequence helpers (Vec / iterator operations used by the generators).    *)
(***************************************************************************)
\* Iterator::max over a non-empty Vec<u32>.
MaxOf(s) == CHOOSE m \in {s[i] : i \in DOMAIN s} : \A i \in DOMAIN s : s[i] <= m

\* Iterator::min over a non-empty Vec<u32>.
MinOf(s) == CHOOSE m \in {s[i] : i \in DOMAIN s} : \A i \in DOMAIN s : m <= s[i]

\* The elements of a sequence, as a set.
Range(s) == {s[i] : i \in DOMAIN s}

\* All sequences over S of length 0..n.
SeqsUpTo(S, n) == UNION {[1..k -> S] : k \in 0..n}

\* slice::sort on Vec<u32>: insertion of x into an ascending sequence.
RECURSIVE InsertNat(_, _)
InsertNat(s, x) ==
    IF s = <<>> THEN <<x>>
    ELSE IF x < Head(s) THEN <<x>> \o s
    ELSE <<Head(s)>> \o InsertNat(Tail(s), x)

RECURSIVE SortNat(_)
SortNat(s) == IF s = <<>> THEN <<>> ELSE InsertNat(SortNat(Tail(s)), Head(s))

\* Vec::dedup: removes consecutive repeated elements.
RECURSIVE Dedup(_)
Dedup(s) ==
    IF Len(s) <= 1 THEN s
    ELSE IF s[1] = s[2] THEN Dedup(Tail(s))
    ELSE <<s[1]>> \o Dedup(Tail(s))

(***************************************************************************)
(* Field descriptor resolver (crate::field), modelled from section 4.1.    *)
(***************************************************************************)
\* The multi-tag (oneof-style) tag lists a declaration may carry.
OneofTagLists == {<<MaxTag, 1>>, <<MaxTag - 1, MaxTag>>, <<2, 2>>}

\* The declarations of one struct field: unannotated, ignored, malformed,
\* explicitly tagged, or multi-tag.
FieldDecls ==
    {[kind |-> k, tags |-> <<>>] : k \in {"implicit", "ignore", "invalid"}}
    \cup {[kind |-> "tag", tags |-> <<t>>] : t \in 1..MaxTag}
    \cup {[kind |-> "oneof", tags |-> ts] : ts \in OneofTagLists}

\* Field::new(attrs, Some(inferred_tag)) -> Result<Option<Field>, Error>.
FieldNew(decl, inferred_tag) ==
    CASE decl.kind = "invalid" -> [res |-> "err"]
      [] decl.kind = "ignore" -> [res |-> "none"]
      [] decl.kind = "implicit" ->
            [res |-> "ok", field |-> [kind |-> "scalar", tags |-> <<inferred_tag>>]]
      [] decl.kind = "tag" ->
            [res |-> "ok", field |-> [kind |-> "scalar", tags |-> decl.tags]]
      [] decl.kind = "oneof" ->
            [res |-> "ok", field |-> [kind |-> "oneof", tags |-> decl.tags]]

(***************************************************************************)
(* try_message: tag assignment, ordering and the duplicate-tag check.      *)
(***************************************************************************)
\* Faulty variant: the counter is advanced by one, whatever tags the field took.
NextTagAfterCounting(field, cur) == cur + 1

\* Faulty variant: the counter is advanced past the field's smallest tag.
NextTagAfterMin(field, cur) ==
    IF field.tags = <<>> THEN cur ELSE MinOf(field.tags) + 1

\* next_tag = field.tags().iter().max().map(|t| t + 1).unwrap_or(next_tag)
NextTagAfter(field, cur) ==
    IF field.tags = <<>> THEN cur ELSE MaxOf(field.tags) + 1

\* The key of fields.sort_by_key: field.tags().into_iter().min().unwrap()
SortKey(f) == MinOf(f.tags)

\* Stable insertion: x goes after every element whose key is <= its own.
RECURSIVE InsertByKey(_, _)
InsertByKey(s, x) ==
    IF s = <<>> THEN <<x>>
    ELSE IF SortKey(x) < SortKey(Head(s)) THEN <<x>> \o s
    ELSE <<Head(s)>> \o InsertByKey(Tail(s), x)

\* fields.sort_by_key(..): a stable sort by minimum tag.
RECURSIVE SortByMinTag(_)
SortByMinTag(s) ==
    IF s = <<>> THEN <<>>
    ELSE InsertByKey(SortByMinTag(SubSeq(s, 1, Len(s) - 1)), s[Len(s)])

\* fields.iter().flat_map(|f| f.tags()).collect::<Vec<_>>()
RECURSIVE FlatTags(_)
FlatTags(fs) == IF fs = <<>> THEN <<>> ELSE Head(fs).tags \o FlatTags(Tail(fs))

\* Faulty variant: tags.dedup() without the preceding tags.sort().
NormalizedTagsUnsorted(tags) == Dedup(tags)

\* tags.sort(); tags.dedup();
NormalizedTags(tags) == Dedup(SortNat(tags))

\* tags.len() != num_tags
HasDuplicateTags(fs) ==
    LET tags == FlatTags(fs)
    IN  Len(NormalizedTags(tags)) # Len(tags)

\* One turn of the flat_map closure: resolve the field at idx.
ResolveField ==
    /\ pc = "resolving"
    /\ idx < Len(decls)
    /\ LET r == FieldNew(decls[idx + 1], next_tag)
       IN  CASE r.res = "ok" ->
                  /\ fields' = Append(fields, [name |-> idx, kind |-> r.field.kind,
                                               tags |-> r.field.tags])
                  /\ next_tag' = NextTagAfter(r.field, next_tag)
                  /\ idx' = idx + 1
                  /\ UNCHANGED <<pc, diag>>
             [] r.res = "none" ->
                  /\ idx' = idx + 1
                  /\ UNCHANGED <<fields, next_tag, pc, diag>>
             [] r.res = "err" ->
                  /\ pc' = "failed"
                  /\ diag' = [kind |-> "invalid_field", shape |-> Ident, field |-> idx]
                  /\ UNCHANGED <<fields, next_tag, idx>>
    /\ UNCHANGED <<decls, unsorted_fields, msg, res, wire, dec, pos>>
    /\ UNCHANGED <<oneofVars, enumVars>>

\* After the last field: clone, sort by minimum tag, check for duplicates.
SortAndCheck ==
    /\ pc = "resolving"
    /\ idx = Len(decls)
    /\ unsorted_fields' = fields
    /\ fields' = SortByMinTag(fields)
    /\ IF HasDuplicateTags(fields')
       THEN /\ pc' = "failed"
            /\ diag' = [kind |-> "duplicate_tags", shape |-> Ident]
       ELSE /\ pc' = "ready"
            /\ diag' = diag
    /\ UNCHANGED <<decls, idx, next_tag, msg, res, wire, dec, pos>>
    /\ UNCHANGED <<oneofVars, enumVars>>

(***************************************************************************)
(* Field capabilities (crate::field and ::prost::encoding), modelled from  *)
(* sections 3 and 6: a payload is a set of atoms, the default payload is   *)
(* empty, merging a well-formed fragment adds its atoms, and a field whose *)
(* payload is the default writes nothing.                                  *)
(***************************************************************************)
Atoms == {"a", "b"}
Payloads == SUBSET Atoms

\* The fragments handed to a record's merge_field.
RecordFragments == {{}, {"a"}}

\* The payload after the field's merge primitive ran: frag is what it read
\* from the buffer, all of a well-formed fragment or the part consumed before
\* the failure, and ok whether it returned Ok.
PayloadMerge(value, frag) == value \cup frag

\* ::std::default::Default::default() of a payload.
PayloadDefault == {}

(***************************************************************************)
(* Code generated by try_oneof: encode and merge of the sum type.          *)
(***************************************************************************)
\* The tag of a variant: field.tags()[0].
VariantTag(vf) == vf.tags[1]

\* The first arm of `match tag` that matches, 0 when only `_` does.
OneofArm(vs, tag) ==
    IF \E i \in DOMAIN vs : VariantTag(vs[i]) = tag
    THEN CHOOSE i \in DOMAIN vs :
            /\ VariantTag(vs[i]) = tag
            /\ \A j \in 1..(i - 1) : VariantTag(vs[j]) # tag
    ELSE 0

\* pub fn encode: match *self { #ident::#variant_ident(ref value) => { #encode } }
OneofEncode(vs, val) ==
    LET i == CHOOSE j \in DOMAIN vs : vs[j].name = val.variant
    IN  <<[tag |-> VariantTag(vs[i]), payload |-> val.payload]>>

\* Faulty variant: the arm always builds a fresh payload and replaces the slot.
OneofMergeArmFresh(vf, sl, frag, ok) ==
    IF ok
    THEN [slot |-> Some([variant |-> vf.name,
                         payload |-> PayloadMerge(PayloadDefault, frag)]),
          status |-> "ok"]
    ELSE [slot |-> sl, status |-> "err"]

\* Faulty variant: the slot is replaced before the payload merge is known to succeed.
OneofMergeArmEager(vf, sl, frag, ok) ==
    IF sl.some /\ sl.value.variant = vf.name
    THEN [slot |-> Some([variant |-> vf.name,
                         payload |-> PayloadMerge(sl.value.payload, frag)]),
          status |-> IF ok THEN "ok" ELSE "err"]
    ELSE [slot |-> Some([variant |-> vf.name,
                         payload |-> PayloadMerge(PayloadDefault, frag)]),
          status |-> IF ok THEN "ok" ELSE "err"]

\* One arm of the generated merge:
\*   Some(#ident::#variant_ident(ref mut value)) => #merge,
\*   _ => { let mut owned_value = Default::default(); let value = &mut owned_value;
\*          #merge.map(|_| *field = Some(#ident::#variant_ident(owned_value))) }
OneofMergeArm(vf, sl, frag, ok) ==
    IF sl.some /\ sl.value.variant = vf.name
    THEN [slot |-> Some([variant |-> vf.name,
                         payload |-> PayloadMerge(sl.value.payload, frag)]),
          status |-> IF ok THEN "ok" ELSE "err"]
    ELSE IF ok
         THEN [slot |-> Some([variant |-> vf.name,
                              payload |-> PayloadMerge(PayloadDefault, frag)]),
               status |-> "ok"]
         ELSE [slot |-> sl, status |-> "err"]

\* pub fn merge: match tag { #(#merge,)* _ => unreachable!(..) }
OneofMerge(vs, sl, tag, frag, ok) ==
    LET i == OneofArm(vs, tag)
    IN  IF i = 0
        THEN [slot |-> sl, status |-> "unreachable"]
        ELSE OneofMergeArm(vs[i], sl, frag, ok)

(***************************************************************************)
(* Per-field capabilities of a record field (crate::field), from section 3.*)
(***************************************************************************)
\* The variants of the sum type a multi-tag record field stores: one per tag.
VariantsOf(f) == [i \in DOMAIN f.tags |-> [name |-> i, tags |-> <<f.tags[i]>>]]

\* field.default()
FieldDefault(f) == IF f.kind = "oneof" THEN None ELSE PayloadDefault

\* field.encode(self.#field_ident): the (tag, payload) pairs the field writes.
FieldEncode(f, v) ==
    IF f.kind = "oneof"
    THEN IF v.some THEN OneofEncode(VariantsOf(f), v.value) ELSE <<>>
    ELSE IF v = PayloadDefault THEN <<>> ELSE <<[tag |-> f.tags[1], payload |-> v]>>

\* field.merge(value): the new value and the Result of the merge.
FieldMerge(f, v, tag, frag, ok) ==
    IF f.kind = "oneof"
    THEN LET r == OneofMerge(VariantsOf(f), v, tag, frag, ok)
         IN  [value |-> r.slot, status |-> r.status]
    ELSE [value |-> PayloadMerge(v, frag),
          status |-> IF ok THEN "ok" ELSE "err"]

(***************************************************************************)
(* Code generated by try_message: Default, encode_raw and merge_field.     *)
(***************************************************************************)
\* impl Default: #ident { #(#default)* }
DefaultMsg(fs) ==
    [n \in {fs[i].name : i \in DOMAIN fs} |->
        FieldDefault(fs[CHOOSE i \in DOMAIN fs : fs[i].name = n])]

\* fn encode_raw: #(#encode)* over the tag-sorted fields.
RECURSIVE EncodeRaw(_, _)
EncodeRaw(fs, m) ==
    IF fs = <<>> THEN <<>>
    ELSE FieldEncode(Head(fs), m[Head(fs).name]) \o EncodeRaw(Tail(fs), m)

\* Faulty variant: an arm matches only the first tag of its field.
ArmMatchesFirstTag(f, tag) == f.tags[1] = tag

\* The pattern of an arm: #(#tags)* with `|` interspersed.
ArmMatches(f, tag) == tag \in Range(f.tags)

\* The first arm of `match tag` that matches, 0 when only `_` does.
MergeArm(fs, tag) ==
    IF \E i \in DOMAIN fs : ArmMatches(fs[i], tag)
    THEN CHOOSE i \in DOMAIN fs :
            /\ ArmMatches(fs[i], tag)
            /\ \A j \in 1..(i - 1) : ~ArmMatches(fs[j], tag)
    ELSE 0

\* error.push(STRUCT_NAME, stringify!(#field_ident))
PushContext(stack, name) == Append(stack, [message |-> Ident, field |-> name])

\* Faulty variant: an unknown tag resets the instance instead of being skipped.
SkipArmClears(fs, m, tag, ok) ==
    [msg |-> DefaultMsg(fs),
     res |-> [tag |-> tag, via |-> "skip", field |-> -1,
              status |-> IF ok THEN "ok" ELSE "err", stack |-> <<>>]]

\* _ => ::prost::encoding::skip_field(wire_type, tag, buf, ctx)
SkipArm(fs, m, tag, ok) ==
    [msg |-> m,
     res |-> [tag |-> tag, via |-> "skip", field |-> -1,
              status |-> IF ok THEN "ok" ELSE "err", stack |-> <<>>]]

\* fn merge_field: match tag { #(#merge)* _ => skip_field(..) }
MergeField(fs, m, tag, frag, ok) ==
    LET i == MergeArm(fs, tag)
    IN  IF i = 0
        THEN SkipArm(fs, m, tag, ok)
        ELSE LET f == fs[i]
                 r == FieldMerge(f, m[f.name], tag, frag, ok)
             IN  [msg |-> [m EXCEPT ![f.name] = r.value],
                  res |-> [tag |-> tag, via |-> "field", field |-> f.name,
                           status |-> r.status,
                           stack |-> IF r.status = "err"
                                     THEN PushContext(<<>>, f.name) ELSE <<>>]]

\* The tags a caller may hand to merge_field: every tag a field can carry and
\* at least one that no field carries.
WireTags == 1..(MaxTag + MaxRecordFields + 1)

\* Default::default() of the compiled struct.
NewDefault ==
    /\ pc = "ready"
    /\ pc' = "live"
    /\ msg' = DefaultMsg(fields)
    /\ UNCHANGED <<decls, idx, next_tag, fields, unsorted_fields, diag, res, wire, dec, pos>>
    /\ UNCHANGED <<oneofVars, enumVars>>

\* The values a field of an instance may hold.
FieldValues(f) ==
    IF f.kind = "oneof"
    THEN {None} \cup {Some([variant |-> i, payload |-> p]) :
                         i \in DOMAIN f.tags, p \in RecordFragments}
    ELSE RecordFragments

\* The owner of the instance assigns one of its fields.
SetField ==
    /\ pc = "live"
    /\ \E i \in DOMAIN fields :
         \E v \in FieldValues(fields[i]) :
            msg' = [msg EXCEPT ![fields[i].name] = v]
    /\ res' = NoValue
    /\ UNCHANGED <<decls, pc, idx, next_tag, fields, unsorted_fields, diag, wire, dec, pos>>
    /\ UNCHANGED <<oneofVars, enumVars>>

\* A call of the generated merge_field on the instance.
MergeFieldCall ==
    /\ pc = "live"
    /\ \E tag \in WireTags, frag \in RecordFragments, ok \in BOOLEAN :
         LET r == MergeField(fields, msg, tag, frag, ok)
         IN  /\ msg' = r.msg
             /\ res' = r.res
    /\ UNCHANGED <<decls, pc, idx, next_tag, fields, unsorted_fields, diag, wire, dec, pos>>
    /\ UNCHANGED <<oneofVars, enumVars>>

\* A call of the generated encode_raw on the instance; decoding starts from
\* a default instance.
EncodeRawCall ==
    /\ pc = "live"
    /\ pc' = "encoded"
    /\ wire' = EncodeRaw(fields, msg)
    /\ dec' = DefaultMsg(fields)
    /\ pos' = 0
    /\ res' = NoValue
    /\ UNCHANGED <<decls, idx, next_tag, fields, unsorted_fields, diag, msg>>
    /\ UNCHANGED <<oneofVars, enumVars>>

\* Message::merge: one turn of the decode loop, merge_field on the next pair.
DecodeNext ==
    /\ pc = "encoded"
    /\ pos < Len(wire)
    /\ LET w == wire[pos + 1]
           r == MergeField(fields, dec, w.tag, w.payload, TRUE)
       IN  /\ dec' = r.msg
           /\ res' = r.res
    /\ pos' = pos + 1
    /\ UNCHANGED <<decls, pc, idx, next_tag, fields, unsorted_fields, diag, msg, wire>>
    /\ UNCHANGED <<oneofVars, enumVars>>

\* Message::merge: the buffer is exhausted.
DecodeDone ==
    /\ pc = "encoded"
    /\ pos = Len(wire)
    /\ pc' = "decoded"
    /\ UNCHANGED <<decls, idx, next_tag, fields, unsorted_fields, diag,
                   msg, res, wire, dec, pos>>
    /\ UNCHANGED <<oneofVars, enumVars>>

(***************************************************************************)
(* try_oneof: one field per variant, then the tag check.                   *)
(***************************************************************************)
\* The declarations of one variant: the number of fields it wraps and what
\* its attributes resolve to (malformed, untagged, ignored, or tagged).
VariantDecls ==
    {[nfields |-> n, kind |-> "tags", tags |-> <<1>>] : n \in {0, 2}}
    \cup {[nfields |-> 1, kind |-> k, tags |-> <<>>] :
             k \in {"invalid", "untagged", "ignore"}}
    \cup {[nfields |-> 1, kind |-> "tags", tags |-> <<t>>] : t \in 1..MaxTag}
    \cup {[nfields |-> 1, kind |-> "tags", tags |-> ts] : ts \in OneofTagLists}

\* Field::new_oneof(attrs) -> Result<Option<Field>, Error>: no inferred tag.
FieldNewOneof(decl) ==
    CASE decl.kind \in {"invalid", "untagged"} -> [res |-> "err"]
      [] decl.kind = "ignore" -> [res |-> "none"]
      [] decl.kind = "tags" -> [res |-> "ok", field |-> [tags |-> decl.tags]]

\* The closure of the tag pass: Err when the field has several tags.
\*   if field.tags().len() > 1 { bail!(..ident, variant_ident) }  Ok(field.tags()[0])
SingleTag(vf) ==
    IF Len(vf.tags) > 1
    THEN [ok |-> FALSE,
          err |-> [kind |-> "single_tag", shape |-> Ident, variant |-> vf.name]]
    ELSE [ok |-> TRUE, value |-> vf.tags[1]]

\* flat_map over a Result: an Ok yields its value, an Err yields nothing.
RECURSIVE FlatMapSingleTag(_)
FlatMapSingleTag(vs) ==
    IF vs = <<>> THEN <<>>
    ELSE LET r == SingleTag(Head(vs))
         IN  (IF r.ok THEN <<r.value>> ELSE <<>>) \o FlatMapSingleTag(Tail(vs))

\* One turn of the loop over the variants.
MapVariant ==
    /\ opc = "input"
    /\ Len(ofields) < Len(variants)
    /\ LET i == Len(ofields) + 1
           d == variants[i]
           r == FieldNewOneof(d)
       IN  CASE d.nfields # 1 ->
                  /\ opc' = "failed"
                  /\ odiag' = [kind |-> "single_field"]
                  /\ UNCHANGED ofields
             [] d.nfields = 1 /\ r.res = "err" ->
                  /\ opc' = "failed"
                  /\ odiag' = [kind |-> "invalid_variant"]
                  /\ UNCHANGED ofields
             [] d.nfields = 1 /\ r.res = "none" ->
                  /\ opc' = "failed"
                  /\ odiag' = [kind |-> "ignored_variant"]
                  /\ UNCHANGED ofields
             [] d.nfields = 1 /\ r.res = "ok" ->
                  /\ ofields' = Append(ofields, [name |-> i, tags |-> r.field.tags])
                  /\ UNCHANGED <<opc, odiag>>
    /\ UNCHANGED <<variants, slot, ores>>
    /\ UNCHANGED <<recordVars, enumVars>>

\* After the loop: collect the tags, sort, dedup, compare with fields.len().
CheckVariantTags ==
    /\ opc = "input"
    /\ Len(ofields) = Len(variants)
    /\ LET tags == NormalizedTags(FlatMapSingleTag(ofields))
       IN  IF Len(tags) # Len(ofields)
           THEN /\ opc' = "panicked"
                /\ odiag' = [kind |-> "duplicate_tags", shape |-> Ident]
           ELSE /\ opc' = "ready"
                /\ odiag' = odiag
    /\ UNCHANGED <<variants, ofields, slot, ores>>
    /\ UNCHANGED <<recordVars, enumVars>>

\* The tags a caller may hand to the generated merge.
OneofWireTags == 1..(MaxTag + 1)

\* A call of the generated merge on the slot; an unmatched tag is unreachable!().
OneofMergeCall ==
    /\ opc = "ready"
    /\ \E tag \in OneofWireTags, frag \in Payloads, ok \in BOOLEAN :
         LET r == OneofMerge(ofields, slot, tag, frag, ok)
         IN  IF r.status = "unreachable"
             THEN /\ opc' = "panicked"
                  /\ odiag' = [kind |-> "unreachable", shape |-> Ident, tag |-> tag]
                  /\ UNCHANGED <<slot, ores>>
             ELSE /\ slot' = r.slot
                  /\ ores' = [tag |-> tag, frag |-> frag, status |-> r.status]
                  /\ UNCHANGED <<opc, odiag>>
    /\ UNCHANGED <<variants, ofields>>
    /\ UNCHANGED <<recordVars, enumVars>>

(***************************************************************************)
(* try_enumeration and the impls it generates.                             *)
(***************************************************************************)
\* The items of the impl block: associated constants and other items.
EnumItems ==
    {[kind |-> "method", value |-> 0]}
    \cup {[kind |-> "const", value |-> v] : v \in 0..MaxConstValue}

\* The impl blocks the attribute may be applied to.
EnumImpls ==
    [generic : BOOLEAN, trait : BOOLEAN, items : SeqsUpTo(EnumItems, MaxConsts)]

\* The raw integers handed to From<i32>.
RawInts == (-1..(MaxConstValue + 1)) \cup {I32Min, I32Max}

\* The value of the newtype: #ty(value).
Newtype(value) == [v0 |-> value]

\* #ty::#variant: the associated constant an ident names.
ConstOf(impl, ident) == Newtype(impl.items[ident].value)

\* Faulty variant: validity as a range check between the first and last constant.
IsValidRange(impl, vs, e) ==
    /\ ConstOf(impl, vs[1]).v0 <= e.v0
    /\ e.v0 <= ConstOf(impl, vs[Len(vs)]).v0

\* pub fn is_valid(&self): match self { #(#ty::#variants)|* => true, _ => false }
IsValid(impl, vs, e) == \E i \in DOMAIN vs : e = ConstOf(impl, vs[i])

\* impl Default: #ty::#default with default = &variants[0]
EnumDefault(impl, vs) == ConstOf(impl, vs[1])

\* impl From<i32> for #ty: #ty(value)
FromI32(raw) == Newtype(raw)

\* impl From<#ty> for i32: value.0
IntoI32(e) == e.v0

\* try_enumeration, from the parsed impl to the generated code or a diagnostic.
EnumerationCompile ==
    /\ epc = "input"
    /\ LET items == eimpl.items
           consts == {i \in DOMAIN items : items[i].kind = "const"}
       IN  CASE eimpl.generic ->
                  /\ epc' = "failed"
                  /\ ediag' = [kind |-> "generic"]
                  /\ UNCHANGED evariants
             [] ~eimpl.generic /\ eimpl.trait ->
                  /\ epc' = "failed"
                  /\ ediag' = [kind |-> "trait_impl"]
                  /\ UNCHANGED evariants
             [] ~eimpl.generic /\ ~eimpl.trait /\ consts # DOMAIN items ->
                  /\ epc' = "failed"
                  /\ ediag' = [kind |-> "only_consts"]
                  /\ UNCHANGED evariants
             [] ~eimpl.generic /\ ~eimpl.trait /\ consts = DOMAIN items
                  /\ items = <<>> ->
                  /\ epc' = "failed"
                  /\ ediag' = [kind |-> "no_consts"]
                  /\ UNCHANGED evariants
             [] OTHER ->
                  /\ epc' = "ready"
                  /\ evariants' = [i \in DOMAIN items |-> i]
                  /\ UNCHANGED ediag
    /\ UNCHANGED <<eimpl, evalue, eraw>>
    /\ UNCHANGED <<recordVars, oneofVars>>

\* A call of the generated From<i32>.
EnumFromCall ==
    /\ epc = "ready"
    /\ \E raw \in RawInts :
         /\ evalue' = FromI32(raw)
         /\ eraw' = Some(raw)
    /\ UNCHANGED <<eimpl, epc, evariants, ediag>>
    /\ UNCHANGED <<recordVars, oneofVars>>

\* A call of the generated Default::default().
EnumDefaultCall ==
    /\ epc = "ready"
    /\ evalue' = EnumDefault(eimpl, evariants)
    /\ eraw' = None
    /\ UNCHANGED <<eimpl, epc, evariants, ediag>>
    /\ UNCHANGED <<recordVars, oneofVars>>

(***************************************************************************)
(* Idle values of the parts a specification does not run.                  *)
(***************************************************************************)
RecordIdle ==
    /\ decls = <<>> /\ pc = "idle" /\ idx = 0 /\ next_tag = 1
    /\ fields = <<>> /\ unsorted_fields = <<>> /\ diag = NoDiag
    /\ msg = <<>> /\ res = NoValue /\ wire = <<>> /\ dec = <<>> /\ pos = 0

RuntimeIdle ==
    /\ msg = <<>> /\ res = NoValue /\ wire = <<>> /\ dec = <<>> /\ pos = 0

OneofIdle ==
    /\ variants = <<>> /\ opc = "idle" /\ ofields = <<>> /\ odiag = NoDiag
    /\ slot = None /\ ores = NoValue

EnumIdle ==
    /\ eimpl = NoValue /\ epc = "idle" /\ evariants = <<>> /\ ediag = NoDiag
    /\ evalue = NoValue /\ eraw = None

(***************************************************************************)
(* Spec: try_message over every struct of up to MaxFields fields.          *)
(***************************************************************************)
Init ==
    /\ decls \in SeqsUpTo(FieldDecls, MaxFields)
    /\ pc = "resolving" /\ idx = 0 /\ next_tag = 1
    /\ fields = <<>> /\ unsorted_fields = <<>> /\ diag = NoDiag
    /\ RuntimeIdle /\ OneofIdle /\ EnumIdle

Next == ResolveField \/ SortAndCheck

Spec == Init /\ [][Next]_vars

(***************************************************************************)
(* SpecRecord: try_message over every struct of up to MaxRecordFields      *)
(* fields, followed by the generated code at run time.                     *)
(***************************************************************************)
InitRecord ==
    /\ decls \in SeqsUpTo(FieldDecls, MaxRecordFields)
    /\ pc = "resolving" /\ idx = 0 /\ next_tag = 1
    /\ fields = <<>> /\ unsorted_fields = <<>> /\ diag = NoDiag
    /\ RuntimeIdle /\ OneofIdle /\ EnumIdle

NextRecord ==
    \/ ResolveField
    \/ SortAndCheck
    \/ NewDefault
    \/ SetField
    \/ MergeFieldCall
    \/ EncodeRawCall
    \/ DecodeNext
    \/ DecodeDone

SpecRecord == InitRecord /\ [][NextRecord]_vars

(***************************************************************************)
(* SpecOneof: try_oneof over every enum of up to MaxVariants variants,     *)
(* followed by calls of the generated merge.                               *)
(***************************************************************************)
InitOneof ==
    /\ variants \in SeqsUpTo(VariantDecls, MaxVariants)
    /\ opc = "input" /\ ofields = <<>> /\ odiag = NoDiag
    /\ slot = None /\ ores = NoValue
    /\ RecordIdle /\ EnumIdle

NextOneof == MapVariant \/ CheckVariantTags \/ OneofMergeCall

SpecOneof == InitOneof /\ [][NextOneof]_vars

(***************************************************************************)
(* SpecEnum: try_enumeration over every impl block of up to MaxConsts      *)
(* items, followed by calls of the generated conversions.                  *)
(***************************************************************************)
InitEnum ==
    /\ eimpl \in EnumImpls
    /\ epc = "input" /\ evariants = <<>> /\ ediag = NoDiag
    /\ evalue = NoValue /\ eraw = None
    /\ RecordIdle /\ OneofIdle

NextEnum == EnumerationCompile \/ EnumFromCall \/ EnumDefaultCall

SpecEnum == InitEnum /\ [][NextEnum]_vars

(***************************************************************************)
(* Properties.                                                             *)
(***************************************************************************)
\* The resolved fields in declaration order: the vector being built, and the
\* clone kept once it was sorted.
DeclOrder ==
    IF pc = "resolving" \/ (pc = "failed" /\ diag.kind = "invalid_field")
    THEN fields ELSE unsorted_fields

\* The kind of the declaration a resolved field came from.
DeclKind(f) == decls[f.name + 1].kind

\* The struct declares no field with an explicit single tag.
NoExplicitTag == \A i \in DOMAIN decls : decls[i].kind # "tag"

\* Some element occurs twice in the sequence.
HasRepeat(s) == \E i, j \in DOMAIN s : i # j /\ s[i] = s[j]

\* C1: in a struct whose fields carry no explicit tag, every unannotated field
\* is given the maximum tag of the previously resolved field plus one (1 for
\* the first), so a struct of unannotated and ignored fields gets 1, 2, 3, ...
\* in declaration order; an ignored field yields no field and leaves next_tag
\* as it was.
C1_SequentialTags ==
    NoExplicitTag =>
        LET fs == DeclOrder
        IN  /\ \A k \in DOMAIN fs :
                  DeclKind(fs[k]) = "implicit" =>
                      fs[k].tags = <<IF k = 1 THEN 1 ELSE MaxOf(fs[k - 1].tags) + 1>>
            /\ (\A i \in DOMAIN decls : decls[i].kind \in {"implicit", "ignore"})
                  => \A k \in DOMAIN fs : fs[k].tags = <<k>>
            /\ \A k \in DOMAIN fs : DeclKind(fs[k]) # "ignore"
            /\ \A k \in DOMAIN fs : k > 1 => fs[k - 1].name < fs[k].name
            /\ pc = "resolving" =>
                  next_tag = IF fs = <<>> THEN 1 ELSE MaxOf(fs[Len(fs)].tags) + 1

\* C1 witness: a compiled struct without explicit tags in which an ignored
\* field and a multi-tag field precede an unannotated one, whose tag skips
\* the tags the multi-tag field took.
C1_Witness ==
    /\ pc = "ready"
    /\ NoExplicitTag
    /\ \E i \in DOMAIN decls : decls[i].kind = "ignore" /\ i < Len(decls)
    /\ \E k \in DOMAIN unsorted_fields :
          /\ k > 1
          /\ DeclKind(unsorted_fields[k]) = "implicit"
          /\ DeclKind(unsorted_fields[k - 1]) = "oneof"
          /\ unsorted_fields[k].tags[1] > k

\* C2 (as claimed): in every compiled struct the implicit tags of the
\* unannotated fields are strictly increasing in declaration order.
C2_ImplicitTagsIncreasing ==
    pc = "ready" =>
        \A p, q \in DOMAIN unsorted_fields :
            ( /\ p < q
              /\ DeclKind(unsorted_fields[p]) = "implicit"
              /\ DeclKind(unsorted_fields[q]) = "implicit" )
            => unsorted_fields[p].tags[1] < unsorted_fields[q].tags[1]

\* C2 (amended): the first fallback is 1, and the implicit tag of a later
\* unannotated field exceeds that of an earlier one whenever every field
\* resolved between them has a maximum tag no lower than the earlier implicit
\* tag.
C2_ImplicitTagsIncreasingUnlessLowered ==
    LET fs == DeclOrder
    IN  /\ (pc = "resolving" /\ fs = <<>>) => next_tag = 1
        /\ \A k \in DOMAIN fs :
              (k = 1 /\ DeclKind(fs[k]) = "implicit") => fs[k].tags = <<1>>
        /\ \A p, q \in DOMAIN fs :
              ( /\ p < q
                /\ DeclKind(fs[p]) = "implicit"
                /\ DeclKind(fs[q]) = "implicit"
                /\ \A r \in (p + 1)..(q - 1) : MaxOf(fs[r].tags) >= fs[p].tags[1] )
              => fs[p].tags[1] < fs[q].tags[1]

\* C2 witness: a compiled struct with two unannotated fields around a
\* multi-tag field, the later implicit tag above the multi-tag field's.
C2_Witness ==
    /\ pc = "ready"
    /\ \E p, q \in DOMAIN unsorted_fields :
          /\ q = p + 2
          /\ DeclKind(unsorted_fields[p]) = "implicit"
          /\ DeclKind(unsorted_fields[p + 1]) = "oneof"
          /\ DeclKind(unsorted_fields[q]) = "implicit"
          /\ unsorted_fields[q].tags[1] > unsorted_fields[p].tags[1] + 1

\* C3: once every field resolved, try_message ends with the duplicate-tag
\* diagnostic naming the shape exactly when some tag occurs twice among the
\* tags of all fields; when it succeeds all tags are pairwise distinct and
\* every tag matches at most one arm of the generated merge_field.
C3_DuplicateTagCheck ==
    /\ pc # "resolving" =>
          ( (pc = "failed" /\ diag = [kind |-> "duplicate_tags", shape |-> Ident])
            <=> (diag.kind # "invalid_field" /\ HasRepeat(FlatTags(fields))) )
    /\ pc \in {"ready", "live", "encoded", "decoded"} =>
          /\ ~HasRepeat(FlatTags(fields))
          /\ \A t \in 1..(MaxTag + MaxFields) :
                Cardinality({i \in DOMAIN fields : t \in Range(fields[i].tags)}) <= 1

\* C3 witness: a struct rejected for a tag shared by two of its fields, one
\* of them multi-tag.
C3_Witness ==
    /\ pc = "failed"
    /\ diag.kind = "duplicate_tags"
    /\ \E i, j \in DOMAIN fields :
          /\ i # j
          /\ fields[i].kind = "oneof"
          /\ ~HasRepeat(fields[i].tags)
          /\ Range(fields[i].tags) \cap Range(fields[j].tags) # {}

\* C4 (as claimed): the tags encode_raw writes are in non-decreasing order.
C4_EncodeTagsAscending ==
    pc \in {"encoded", "decoded"} =>
        \A i, j \in DOMAIN wire : i < j => wire[i].tag <= wire[j].tag

\* The variant an Oneof::merge call selects: the one whose tag matches.
SelectedVariant(tag) == ofields[OneofArm(ofields, tag)].name

\* C5: a successful Oneof::merge with the tag of variant V leaves V in the
\* slot; when V was already there the fragment is merged into its payload,
\* otherwise the payload is a default payload with only the fragment merged.
C5_MergeActivatesVariant ==
    [][ (opc = "ready" /\ opc' = "ready" /\ ores'.status = "ok") =>
            LET v == SelectedVariant(ores'.tag)
            IN  /\ slot'.some
                /\ slot'.value.variant = v
                /\ IF slot.some /\ slot.value.variant = v
                   THEN slot'.value.payload = slot.value.payload \cup ores'.frag
                   ELSE slot'.value.payload = ores'.frag ]_vars

\* C5 witness: a variant whose payload was assembled from two fragments, the
\* last one merged in place.
C5_Witness ==
    /\ opc = "ready"
    /\ Len(ofields) = 2
    /\ ores # NoValue
    /\ ores.status = "ok"
    /\ ores.frag = {"b"}
    /\ slot.some
    /\ slot.value.payload = {"a", "b"}

\* C6 (as claimed): when every variant resolved and one of them has more than
\* one tag, try_oneof fails with the single-tag diagnostic naming the shape
\* and that variant.
C6_MultiTagVariantDiagnostic ==
    ( /\ opc # "input"
      /\ Len(ofields) = Len(variants)
      /\ \E i \in DOMAIN ofields : Len(ofields[i].tags) > 1 )
    => /\ opc = "failed"
       /\ odiag.kind = "single_tag"
       /\ odiag.shape = Ident
       /\ \E i \in DOMAIN ofields :
             Len(ofields[i].tags) > 1 /\ odiag.variant = ofields[i].name

\* C7: merge_field with a tag of no field goes to skip_field and changes no
\* field; with a tag of a field it changes at most that field, and an error
\* of that field's merge comes back with the shape and field name pushed.
C7_MergeFieldFrame ==
    [][ (pc = "live" /\ pc' = "live" /\ res' # NoValue) =>
            LET t == res'.tag
                owners == {i \in DOMAIN fields : t \in Range(fields[i].tags)}
            IN  /\ owners = {} => (res'.via = "skip" /\ msg' = msg)
                /\ owners # {} =>
                      \E i \in owners :
                          /\ res'.via = "field"
                          /\ res'.field = fields[i].name
                          /\ DOMAIN msg' = DOMAIN msg
                          /\ \A n \in DOMAIN msg \ {fields[i].name} : msg'[n] = msg[n]
                          /\ res'.status = "err" =>
                                res'.stack = <<[message |-> Ident,
                                                field |-> fields[i].name]>> ]_vars

\* C7 witness: an instance with a field set, after a merge_field call with an
\* unknown tag.
C7_Witness ==
    /\ pc = "live"
    /\ Len(fields) = 2
    /\ res # NoValue
    /\ res.via = "skip"
    /\ \A i \in DOMAIN fields : res.tag \notin Range(fields[i].tags)
    /\ msg # DefaultMsg(fields)

\* C8: decoding what encode_raw wrote into a default instance gives the
\* instance back.
C8_RoundTrip == pc = "decoded" => dec = msg

\* C8 witness: a decoded instance whose multi-tag field was written before a
\* field of a lower tag.
C8_Witness ==
    /\ pc = "decoded"
    /\ Len(wire) = 2
    /\ wire[1].tag > wire[2].tag
    /\ dec # DefaultMsg(fields)

\* The values of the declared constants.
DeclaredValues == {eimpl.items[evariants[i]].value : i \in DOMAIN evariants}

\* C9: is_valid holds exactly of the declared constants, default() is the
\* first declared constant, from(raw) takes any raw integer unvalidated, and
\* into(from(raw)) = raw.
C9_EnumerationOps ==
    (epc = "ready" /\ evalue # NoValue) =>
        /\ IsValid(eimpl, evariants, evalue) <=> (IntoI32(evalue) \in DeclaredValues)
        /\ ~eraw.some =>
              /\ IntoI32(evalue) = eimpl.items[1].value
              /\ IsValid(eimpl, evariants, evalue)
        /\ eraw.some =>
              /\ IntoI32(evalue) = eraw.value
              /\ eraw.value \notin DeclaredValues => ~IsValid(eimpl, evariants, evalue)

\* C9 witness: a value made by from(raw) from an undeclared raw integer that
\* lies between two declared constants.
C9_Witness ==
    /\ epc = "ready"
    /\ evalue # NoValue
    /\ eraw.some
    /\ eraw.value \notin DeclaredValues
    /\ \E a, b \in DeclaredValues : a < eraw.value /\ eraw.value < b
    /\ ~IsValid(eimpl, evariants, evalue)

\* C10: a failed Oneof::merge with the tag of a variant the slot does not
\* hold leaves the slot as it was.
C10_FailedMergeKeepsSlot ==
    [][ ( /\ opc = "ready" /\ opc' = "ready"
          /\ ores'.status = "err"
          /\ ~(slot.some /\ slot.value.variant = SelectedVariant(ores'.tag)) )
        => slot' = slot ]_vars

\* C10 witness: a slot holding one variant after a failed merge of a
\* non-empty fragment for another variant.
C10_Witness ==
    /\ opc = "ready"
    /\ ores # NoValue
    /\ ores.status = "err"
    /\ ores.frag # {}
    /\ slot.some
    /\ slot.value.variant # SelectedVariant(ores.tag)
    /\ slot.value.payload # {}

====
